---- MODULE Spec2Model ----
(***************************************************************************)
(* Model of the repository-analysis pipeline of app/ (codebase.py,         *)
(* summarizer.py, report.py).  Each component that is a pure function of   *)
(* its inputs is an operator computed as the code computes it; each        *)
(* specification draws the inputs in its Init and applies the operation.   *)
(* Regular expressions, Path.suffix and json.loads are tables over the     *)
(* concrete strings the inputs are drawn from; weights are exact fractions.*)
(*                                                                         *)
(*   Spec        analyze_repository, one step per service call             *)
(*   SpecChunk   GPTSummarizer._chunk_text                                 *)
(*   SpecSelect  collect_source_candidates                                 *)
(*   SpecSymbols extract_symbol_table                                      *)
(*   SpecPrompt  _compose_prompt                                           *)
(*                                                                         *)
(* Texts that the code measures or cuts by characters are strings, with    *)
(* Len, \o and SubSeq as len, + and slicing.                               *)
(***************************************************************************)
EXTENDS Integers, Sequences, FiniteSets, TLC

\* ---------------------------------------------------------------- bounds
\* Longest file text (in characters) given to the chunker.
MaxTextLen == 4
\* Largest token cost the token counter assigns to one decorated line.
MaxTok == 3
\* Largest max_tokens_per_chunk of the settings.
MaxBudget == 3
\* Most entries of a directory tree given to the candidate selector.
MaxTreeEntries == 3
\* Largest max_candidate_files of the settings.
MaxCandidateCap == 2
\* Most lines of a source file given to the symbol extractor.
MaxSrcLines == 4
\* Most entries of the repository one run of the pipeline analyzes.
MaxRepoFiles == 2
\* Most file summaries of the artifacts given to the prompt composer.
MaxSummaries == 2
\* Largest max_chars given to the prompt composer.
MaxChars == 1000

VARIABLES
    \* --- chunker (summarizer.py)
    text,                   \* the file text handed to _chunk_text
    encoding,               \* token cost of each decorated line, by line number
    max_tokens_per_chunk,   \* settings.max_tokens_per_chunk
    chunks,                 \* the list _chunk_text returned
    chunked,                \* whether _chunk_text has returned
    \* --- candidate selector (codebase.py)
    tree,                   \* the entries root.rglob("*") yields, in traversal order
    max_candidate_files,    \* settings.max_candidate_files
    max_file_bytes,         \* settings.max_file_bytes
    candidates,             \* the list collect_source_candidates returned
    selected,               \* whether collect_source_candidates has returned
    \* --- symbol extractor (codebase.py)
    src_language,           \* the declared language of the file
    src_lines,              \* text.splitlines() of the file
    symbols,                \* the list extract_symbol_table returned
    extracted,              \* whether extract_symbol_table has returned
    \* --- pipeline (report.py, summarizer.py)
    pc,                     \* where analyze_repository is
    file_idx,               \* position of summarize_candidates in candidates
    chunk_idx,              \* position of the chunk loop in chunks
    chunk_summaries,        \* summaries of the current file's chunks
    summaries,              \* the FileSummary list built so far
    requests,               \* the service calls issued so far, in order
    raw_report,             \* output text of the report call
    outcome,                \* what analyze_repository returned or raised
    \* --- prompt composer (report.py)
    problem_description,    \* the requirements text of the request
    max_prompt_tokens,      \* settings.max_prompt_tokens
    artifacts,              \* the AnalysisArtifacts handed to _compose_prompt
    max_chars,              \* the max_chars handed to _compose_prompt
    prompt,                 \* the text _compose_prompt returned
    composed                \* whether _compose_prompt has returned

chunkVars == <<text, encoding, max_tokens_per_chunk, chunks, chunked>>
selectVars == <<tree, max_candidate_files, max_file_bytes, candidates, selected>>
symbolVars == <<src_language, src_lines, symbols, extracted>>
pipelineVars == <<pc, file_idx, chunk_idx, chunk_summaries, summaries, requests,
                  raw_report, outcome>>
composeVars == <<artifacts, max_chars, prompt, composed>>
promptVars == <<problem_description, max_prompt_tokens, composeVars>>
vars == <<chunkVars, selectVars, symbolVars, pipelineVars, promptVars>>

\* ------------------------------------------------------------- utilities
Min(a, b) == IF a < b THEN a ELSE b
Max(a, b) == IF a > b THEN a ELSE b

RECURSIVE SumSeq(_)
SumSeq(s) == IF s = <<>> THEN 0 ELSE Head(s) + SumSeq(Tail(s))

RECURSIVE SeqsUpTo(_, _)
\* All sequences over S of length at most n.
SeqsUpTo(S, n) ==
    IF n = 0 THEN {<<>>}
    ELSE LET shorter == SeqsUpTo(S, n - 1)
         IN  shorter \cup {Append(s, c) : s \in shorter, c \in S}

\* ---------------------------------------- components a specification leaves idle
SelectIdle ==
    /\ tree = <<>>
    /\ max_candidate_files = 0
    /\ max_file_bytes = 0
    /\ candidates = <<>>
    /\ selected = FALSE

SymbolsIdle ==
    /\ src_language = "None"
    /\ src_lines = <<>>
    /\ symbols = <<>>
    /\ extracted = FALSE

PipelineIdle ==
    /\ pc = "idle"
    /\ file_idx = 0
    /\ chunk_idx = 0
    /\ chunk_summaries = <<>>
    /\ summaries = <<>>
    /\ requests = <<>>
    /\ raw_report = ""
    /\ outcome = [kind |-> "pending", error |-> "", value |-> [type |-> "none", members |-> {}, str |-> ""]]

ChunkIdle ==
    /\ text = <<>>
    /\ encoding = <<>>
    /\ max_tokens_per_chunk = 0
    /\ chunks = <<>>
    /\ chunked = FALSE

NotComposed ==
    /\ artifacts = [directory_overview |-> "", candidates |-> <<>>, summaries |-> <<>>]
    /\ max_chars = 0
    /\ prompt = ""
    /\ composed = FALSE

PromptIdle ==
    /\ problem_description = ""
    /\ max_prompt_tokens = 0
    /\ NotComposed

\* ------------------------------------------------- chunker: summarizer.py
\* Characters of a file text: an ordinary character and the line break.
Chars == {"a", "\n"}

RECURSIVE SplitFrom(_, _, _, _)
SplitFrom(t, i, cur, acc) ==
    IF i > Len(t) THEN (IF cur = <<>> THEN acc ELSE Append(acc, cur))
    ELSE IF t[i] = "\n" THEN SplitFrom(t, i + 1, <<>>, Append(acc, cur))
    ELSE SplitFrom(t, i + 1, Append(cur, t[i]), acc)

\* str.splitlines(): a line break ends a line, a trailing break opens none.
splitlines(t) == SplitFrom(t, 1, <<>>, <<>>)

\* f"{line_number:04}: {line}": the decorated line keeps its number and content.
Formatted(line_number, line) == [no |-> line_number, line |-> line]

\* len(self.encoding.encode(formatted + "\n")): decorated lines all differ (each
\* starts with its own number), so a token counter may cost each one freely.
TokenCount(enc, formatted) == enc[formatted.no]

\* A flush condition that forgets the line about to be added.
ShouldFlushIgnoringNext(current_lines, current_tokens, token_count, max_tokens) ==
    current_lines # <<>> /\ current_tokens > max_tokens

\* if current_lines and current_tokens + token_count > max_tokens
ShouldFlush(current_lines, current_tokens, token_count, max_tokens) ==
    current_lines # <<>> /\ current_tokens + token_count > max_tokens

\* A closing line that includes the line which opens the next chunk.
ChunkEndLineInclusive(line_number) == line_number

\* chunk_end_line = line_number - 1
ChunkEndLine(line_number) == line_number - 1

CodeChunk(chunk_text, start_line, end_line) ==
    [text |-> chunk_text, start_line |-> start_line, end_line |-> end_line]

ChunkerStart ==
    [chunks |-> <<>>, current_lines |-> <<>>, current_tokens |-> 0,
     chunk_start_line |-> 1]

\* One iteration of the for loop over enumerate(lines, start=1).
ChunkLoopBody(st, line_number, line, enc, max_tokens) ==
    LET formatted == Formatted(line_number, line)
        token_count == TokenCount(enc, formatted)
        s1 == IF ShouldFlush(st.current_lines, st.current_tokens, token_count, max_tokens)
              THEN [chunks |-> Append(st.chunks,
                                      CodeChunk(st.current_lines, st.chunk_start_line,
                                                ChunkEndLine(line_number))),
                    current_lines |-> <<>>,
                    current_tokens |-> 0,
                    chunk_start_line |-> line_number]
              ELSE st
        s2 == IF s1.current_lines = <<>>
              THEN [s1 EXCEPT !.chunk_start_line = line_number]
              ELSE s1
    IN  [s2 EXCEPT !.current_lines = Append(@, formatted),
                   !.current_tokens = @ + token_count]

RECURSIVE ChunkLoop(_, _, _, _, _)
ChunkLoop(st, lines, line_number, enc, max_tokens) ==
    IF line_number > Len(lines) THEN st
    ELSE ChunkLoop(ChunkLoopBody(st, line_number, lines[line_number], enc, max_tokens),
                   lines, line_number + 1, enc, max_tokens)

\* GPTSummarizer._chunk_text
_chunk_text(t, enc, max_tokens) ==
    IF t = <<>> THEN <<>>
    ELSE LET lines == splitlines(t)
             st == ChunkLoop(ChunkerStart, lines, 1, enc, max_tokens)
         IN  IF st.current_lines # <<>>
             THEN Append(st.chunks,
                         CodeChunk(st.current_lines, st.chunk_start_line, Len(lines)))
             ELSE st.chunks

\* Inputs of the chunker: any text, any token counter, any budget.
ChunkInit ==
    /\ text \in SeqsUpTo(Chars, MaxTextLen)
    /\ encoding \in [1..Len(splitlines(text)) -> 0..MaxTok]
    /\ max_tokens_per_chunk \in (-1)..MaxBudget
    /\ chunks = <<>>
    /\ chunked = FALSE
    /\ SelectIdle
    /\ SymbolsIdle
    /\ PipelineIdle
    /\ PromptIdle

ChunkText ==
    /\ ~chunked
    /\ chunks' = _chunk_text(text, encoding, max_tokens_per_chunk)
    /\ chunked' = TRUE
    /\ UNCHANGED <<text, encoding, max_tokens_per_chunk, selectVars, symbolVars, pipelineVars,
                 promptVars>>

SpecChunk == ChunkInit /\ [][ChunkText]_vars

\* ------------------------------------------ candidate selector: codebase.py
SOURCE_EXTENSIONS ==
    [e \in {".py", ".ts", ".tsx", ".js", ".jsx", ".java", ".go", ".rs", ".cs", ".rb",
            ".php", ".swift", ".kt", ".c", ".h", ".cpp", ".hpp", ".m", ".scala",
            ".sql", ".yaml", ".yml", ".json", ".md"} |->
        CASE e \in {".py"} -> "Python"
          [] e \in {".ts", ".tsx"} -> "TypeScript"
          [] e \in {".js", ".jsx"} -> "JavaScript"
          [] e = ".java" -> "Java"
          [] e = ".go" -> "Go"
          [] e = ".rs" -> "Rust"
          [] e = ".cs" -> "C#"
          [] e = ".rb" -> "Ruby"
          [] e = ".php" -> "PHP"
          [] e = ".swift" -> "Swift"
          [] e = ".kt" -> "Kotlin"
          [] e \in {".c", ".h"} -> "C"
          [] e \in {".cpp", ".hpp"} -> "C++"
          [] e = ".m" -> "Objective-C"
          [] e = ".scala" -> "Scala"
          [] e = ".sql" -> "SQL"
          [] e \in {".yaml", ".yml"} -> "YAML"
          [] e = ".json" -> "JSON"
          [] e = ".md" -> "Markdown"]

SKIP_EXTENSIONS ==
    {".png", ".jpg", ".jpeg", ".gif", ".bmp", ".ico", ".svg", ".pdf", ".lock",
     ".bin", ".exe", ".dll", ".so", ".dylib"}

SKIP_DIR_NAMES ==
    {"__pycache__", ".git", ".hg", ".svn", ".venv", "venv", "env", "node_modules",
     "dist", "build", "out", "coverage", ".idea", ".vscode", ".pytest_cache"}

\* The analysis root: the temporary directory the archive was unpacked into.
RootParts == <<"/", "tmp", "ai-reviewer-x">>

\* Path.suffix.lower() of the file names the trees below use (pathlib: the text
\* from the last dot on, none for a name without a dot or with only a leading dot).
SuffixLower(name) ==
    CASE name = "main.py" -> ".py"
      [] name = "APP.PY" -> ".py"
      [] name = "util.ts" -> ".ts"
      [] name = "notes.md" -> ".md"
      [] name = "index.js" -> ".js"
      [] name = "gen.py" -> ".py"
      [] name = "empty.py" -> ".py"
      [] name = "big.py" -> ".py"
      [] name = "pkg.py" -> ".py"
      [] name = "logo.PNG" -> ".png"
      [] name = "data.txt" -> ".txt"
      [] name = "cli.js" -> ".js"

\* What a tree may hold: directories and files, each with its path below the root
\* (directory names, then the name), whether it is a regular file, and its size.
TreeCatalogue ==
    { [dirs |-> <<>>,                 name |-> "main.py",  is_file |-> TRUE,  size |-> 1000],
      [dirs |-> <<>>,                 name |-> "APP.PY",   is_file |-> TRUE,  size |-> 1000],
      [dirs |-> <<"src">>,            name |-> "util.ts",  is_file |-> TRUE,  size |-> 2000],
      [dirs |-> <<"lib">>,            name |-> "notes.md", is_file |-> TRUE,  size |-> 1000],
      [dirs |-> <<"node_modules">>,   name |-> "index.js", is_file |-> TRUE,  size |-> 1000],
      [dirs |-> <<"src", "build">>,   name |-> "gen.py",   is_file |-> TRUE,  size |-> 1000],
      [dirs |-> <<>>,                 name |-> "empty.py", is_file |-> TRUE,  size |-> 0],
      [dirs |-> <<>>,                 name |-> "big.py",   is_file |-> TRUE,  size |-> 3000],
      [dirs |-> <<>>,                 name |-> "pkg.py",   is_file |-> FALSE, size |-> 4096],
      [dirs |-> <<>>,                 name |-> "logo.PNG", is_file |-> TRUE,  size |-> 1000],
      [dirs |-> <<>>,                 name |-> "data.txt", is_file |-> TRUE,  size |-> 1000],
      [dirs |-> <<>>,                 name |-> "cli.js",   is_file |-> TRUE,  size |-> 500] }

\* settings.max_file_bytes as the trees above make it matter.
MaxFileBytesChoices == {2500, 5000}

Range(s) == {s[i] : i \in 1..Len(s)}

\* Sequences of distinct entries: rglob yields every path once.
RECURSIVE DistinctSeqsUpTo(_, _)
DistinctSeqsUpTo(S, n) ==
    IF n = 0 THEN {<<>>}
    ELSE LET shorter == DistinctSeqsUpTo(S, n - 1)
             longest == {s \in shorter : Len(s) = n - 1}
         IN  shorter \cup
             UNION {{Append(s, c) : c \in S \ Range(s)} : s \in longest}

\* path.parts of root / relative
PathParts(entry) == RootParts \o entry.dirs \o <<entry.name>>

\* file_path.relative_to(root).parts
RelativeParts(entry) == entry.dirs \o <<entry.name>>

\* iter_source_files: the test a path passes to be yielded.
IsSourceFile(entry) ==
    /\ entry.is_file
    /\ SuffixLower(entry.name) \notin SKIP_EXTENSIONS
    /\ ~(\E k \in 1..Len(PathParts(entry)) : PathParts(entry)[k] \in SKIP_DIR_NAMES)

\* iter_source_files(root): the yielded paths, in traversal order.
iter_source_files(t) == SelectSeq(t, IsSourceFile)

\* A size test that lets a file of exactly the ceiling plus more through.
SizeRejectedOnlyEmpty(size, limit) == size = 0

\* if size == 0 or size > settings.max_file_bytes: continue
SizeRejected(size, limit) == size = 0 \/ size > limit

\* SOURCE_EXTENSIONS.get(ext): the language, or None.
LanguageOf(entry) ==
    IF SuffixLower(entry.name) \in DOMAIN SOURCE_EXTENSIONS
    THEN SOURCE_EXTENSIONS[SuffixLower(entry.name)]
    ELSE "None"

\* compute_weight, as the exact fraction num/den of
\*   1/(1+depth) * 1/(1+size/2000) * language_bonus * special_bonus
\* (bonuses in tenths: 20 * lb * sb / ((1 + depth) * (2000 + size))).
compute_weight(relative_parts, size, language) ==
    LET depth == Max(Len(relative_parts) - 1, 0)
        language_bonus == IF language \in {"Python", "TypeScript", "JavaScript"}
                          THEN 15 ELSE 10
        special_bonus == IF \E k \in 1..Len(relative_parts) :
                                relative_parts[k] \in {"src", "app", "server", "service"}
                         THEN 12 ELSE 10
    IN  [num |-> 20 * language_bonus * special_bonus,
         den |-> (1 + depth) * (2000 + size)]

WeightGreater(a, b) == a.num * b.den > b.num * a.den
WeightEqual(a, b) == a.num * b.den = b.num * a.den

FileCandidate(entry) ==
    [path |-> PathParts(entry),
     relative_path |-> RelativeParts(entry),
     language |-> LanguageOf(entry),
     size_bytes |-> entry.size,
     weight |-> compute_weight(RelativeParts(entry), entry.size, LanguageOf(entry))]

\* The for loop of collect_source_candidates: the candidates appended, in order.
RECURSIVE CollectLoop(_, _, _)
CollectLoop(files, i, limit) ==
    IF i > Len(files) THEN <<>>
    ELSE LET entry == files[i]
             rest == CollectLoop(files, i + 1, limit)
         IN  IF SizeRejected(entry.size, limit) THEN rest
             ELSE IF LanguageOf(entry) = "None" THEN rest
             ELSE <<FileCandidate(entry)>> \o rest

\* Where a sort that is not stable may put c: before the candidates of its weight.
InsertPositionBeforeTies(sorted, c) ==
    Cardinality({k \in 1..Len(sorted) : WeightGreater(sorted[k].weight, c.weight)})

\* Where the stable descending sort puts c among earlier candidates: after every
\* one whose weight is at least its own.
InsertPosition(sorted, c) ==
    Cardinality({k \in 1..Len(sorted) : ~WeightGreater(c.weight, sorted[k].weight)})

RECURSIVE SortLoop(_, _, _)
SortLoop(cs, i, sorted) ==
    IF i > Len(cs) THEN sorted
    ELSE LET p == InsertPosition(sorted, cs[i])
         IN  SortLoop(cs, i + 1,
                 SubSeq(sorted, 1, p) \o <<cs[i]>> \o SubSeq(sorted, p + 1, Len(sorted)))

\* candidates.sort(key=lambda c: c.weight, reverse=True): stable, descending.
SortByWeightDescending(cs) == SortLoop(cs, 1, <<>>)

\* if len(candidates) > max_candidate_files: candidates = candidates[:max_candidate_files]
Truncate(cs, cap) ==
    IF Len(cs) > cap THEN SubSeq(cs, 1, cap) ELSE cs

collect_source_candidates(t, cap, limit) ==
    Truncate(SortByWeightDescending(CollectLoop(iter_source_files(t), 1, limit)), cap)

SelectInit ==
    /\ tree \in DistinctSeqsUpTo(TreeCatalogue, MaxTreeEntries)
    /\ max_candidate_files \in 0..MaxCandidateCap
    /\ max_file_bytes \in MaxFileBytesChoices
    /\ candidates = <<>>
    /\ selected = FALSE
    /\ ChunkIdle
    /\ SymbolsIdle
    /\ PipelineIdle
    /\ PromptIdle

CollectSourceCandidates ==
    /\ ~selected
    /\ candidates' = collect_source_candidates(tree, max_candidate_files, max_file_bytes)
    /\ selected' = TRUE
    /\ UNCHANGED <<tree, max_candidate_files, max_file_bytes, chunkVars, symbolVars, pipelineVars,
                 promptVars>>

SpecSelect == SelectInit /\ [][CollectSourceCandidates]_vars

\* ------------------------------------------- symbol extractor: codebase.py
None == "None"

\* Source lines of the brace-scoped files, and what the patterns find in each:
\*   open, close  line.count("{"), line.count("}")
\*   class        CLASS_RE.search(line).group(1)
\*   method       TS_METHOD_RE.match(line).group(4)
\*   arrow        TS_ARROW_METHOD_RE.match(line).group(3)
\*   function     TS_FUNCTION_RE.search(line).group(1)
TsLines ==
    {"class A {", "class A", "  class B {", "{", "}", "  m1() {}", "  m2() {}",
     "  h = () => {}", "function f() {}", "  run(function cb() {})"}

TsFeatures(line) ==
    LET f(o, c, cls, m, a, fn) ==
            [open |-> o, close |-> c, class |-> cls, method |-> m, arrow |-> a,
             function |-> fn]
    IN  CASE line = "class A {"               -> f(1, 0, "A", None, None, None)
          [] line = "class A"                 -> f(0, 0, "A", None, None, None)
          [] line = "  class B {"             -> f(1, 0, "B", None, None, None)
          [] line = "{"                       -> f(1, 0, None, None, None, None)
          [] line = "}"                       -> f(0, 1, None, None, None, None)
          [] line = "  m1() {}"               -> f(1, 1, None, "m1", None, None)
          [] line = "  m2() {}"               -> f(1, 1, None, "m2", None, None)
          [] line = "  h = () => {}"          -> f(1, 1, None, None, "h", None)
          [] line = "function f() {}"         -> f(1, 1, None, None, None, "f")
          [] line = "  run(function cb() {})" -> f(1, 1, None, "run", None, "cb")

\* Source lines of the indentation-scoped files, and what the patterns find:
\*   indent  len(line) - len(line.lstrip())
\*   class   PY_CLASS_RE.match(line).group(1)
\*   def     PY_DEF_RE.match(line).group(1)
PyLines ==
    {"class A:", "    class B:", "    def m(self):", "        def g(self):",
     "def f():", "", "        pass", "x = 1"}

PyFeatures(line) ==
    LET f(i, cls, d) == [indent |-> i, class |-> cls, def |-> d]
    IN  CASE line = "class A:"             -> f(0, "A", None)
          [] line = "    class B:"         -> f(4, "B", None)
          [] line = "    def m(self):"     -> f(4, None, "m")
          [] line = "        def g(self):" -> f(8, None, "g")
          [] line = "def f():"             -> f(0, None, "f")
          [] line = ""                     -> f(0, None, None)
          [] line = "        pass"         -> f(8, None, None)
          [] line = "x = 1"                -> f(0, None, None)

\* A symbol name is the sequence of its dot-separated parts: <<"A", "m1">> is A.m1.
SymbolInfo(name, kind, line_start, line_end) ==
    [name |-> name, kind |-> kind, line_start |-> line_start, line_end |-> line_end]

\* f"{current_class}.{method_name}"
Qualified(class_name, name) == <<class_name, name>>

\* while class_stack and brace_depth < class_stack[-1][1]: class_stack.pop()
RECURSIVE PopClosed(_, _)
PopClosed(class_stack, brace_depth) ==
    IF class_stack # <<>> /\ brace_depth < class_stack[Len(class_stack)][2]
    THEN PopClosed(SubSeq(class_stack, 1, Len(class_stack) - 1), brace_depth)
    ELSE class_stack

\* One iteration of the loop of _extract_typescript_symbols.
TsLoopBody(st, idx, line) ==
    LET ft == TsFeatures(line)
        brace_delta == ft.open - ft.close
        stack1 == IF ft.class # None
                  THEN Append(st.class_stack,
                              <<ft.class, st.brace_depth + Max(brace_delta, 1)>>)
                  ELSE st.class_stack
        current_class == IF stack1 # <<>> THEN stack1[Len(stack1)][1] ELSE None
        syms1 == IF ft.method # None /\ current_class # None
                 THEN Append(st.symbols,
                             SymbolInfo(Qualified(current_class, ft.method), "method", idx, idx))
                 ELSE st.symbols
        syms2 == IF ft.arrow # None /\ current_class # None
                 THEN Append(syms1,
                             SymbolInfo(Qualified(current_class, ft.arrow), "method", idx, idx))
                 ELSE syms1
        syms3 == IF ft.function # None
                 THEN Append(syms2, SymbolInfo(<<ft.function>>, "function", idx, idx))
                 ELSE syms2
        depth1 == st.brace_depth + brace_delta
    IN  [symbols |-> syms3, brace_depth |-> depth1,
         class_stack |-> PopClosed(stack1, depth1)]

RECURSIVE TsLoop(_, _, _)
TsLoop(st, lines, idx) ==
    IF idx > Len(lines) THEN st
    ELSE TsLoop(TsLoopBody(st, idx, lines[idx]), lines, idx + 1)

_extract_typescript_symbols(lines) ==
    TsLoop([symbols |-> <<>>, brace_depth |-> 0, class_stack |-> <<>>], lines, 1).symbols

\* indent <= class_stack[-1][1]: the line is no deeper than the class line.
LeftClassBody(indent, class_indent) == indent <= class_indent

\* while class_stack and indent <= class_stack[-1][1]: class_stack.pop()
RECURSIVE PopDedented(_, _)
PopDedented(class_stack, indent) ==
    IF class_stack # <<>> /\ LeftClassBody(indent, class_stack[Len(class_stack)][2])
    THEN PopDedented(SubSeq(class_stack, 1, Len(class_stack) - 1), indent)
    ELSE class_stack

\* One iteration of the loop of _extract_python_symbols.
PyLoopBody(st, idx, line) ==
    LET ft == PyFeatures(line)
        stack1 == PopDedented(st.class_stack, ft.indent)
    IN  IF ft.class # None
        THEN [symbols |-> Append(st.symbols, SymbolInfo(<<ft.class>>, "class", idx, idx)),
              class_stack |-> Append(stack1, <<ft.class, ft.indent>>)]
        ELSE IF ft.def # None
        THEN [symbols |->
                  Append(st.symbols,
                         SymbolInfo(IF stack1 # <<>>
                                    THEN Qualified(stack1[Len(stack1)][1], ft.def)
                                    ELSE <<ft.def>>,
                                    "function", idx, idx)),
              class_stack |-> stack1]
        ELSE [symbols |-> st.symbols, class_stack |-> stack1]

RECURSIVE PyLoop(_, _, _)
PyLoop(st, lines, idx) ==
    IF idx > Len(lines) THEN st
    ELSE PyLoop(PyLoopBody(st, idx, lines[idx]), lines, idx + 1)

_extract_python_symbols(lines) ==
    PyLoop([symbols |-> <<>>, class_stack |-> <<>>], lines, 1).symbols

\* symbols.sort(key=lambda s: s.line_start): stable, ascending.
RECURSIVE SortByStartLoop(_, _, _)
SortByStartLoop(syms, i, sorted) ==
    IF i > Len(syms) THEN sorted
    ELSE LET p == Cardinality({k \in 1..Len(sorted) :
                                  sorted[k].line_start <= syms[i].line_start})
         IN  SortByStartLoop(syms, i + 1,
                 SubSeq(sorted, 1, p) \o <<syms[i]>> \o SubSeq(sorted, p + 1, Len(sorted)))

\* An end line that is not clamped to the symbol's own start.
LineEndBeforeNextUnclamped(line_start, next_start) == next_start - 1

\* symbol.line_end = max(symbol.line_start, next_start - 1)
LineEndBeforeNext(line_start, next_start) == Max(line_start, next_start - 1)

_fill_symbol_line_ends(syms, total_lines) ==
    LET sorted == SortByStartLoop(syms, 1, <<>>)
    IN  [index \in 1..Len(sorted) |->
            IF index + 1 <= Len(sorted)
            THEN [sorted[index] EXCEPT
                     !.line_end = LineEndBeforeNext(sorted[index].line_start,
                                                    sorted[index + 1].line_start)]
            ELSE [sorted[index] EXCEPT !.line_end = total_lines]]

extract_symbol_table(lines, lang) ==
    LET syms == IF lang \in {"TypeScript", "JavaScript"}
                THEN _extract_typescript_symbols(lines)
                ELSE IF lang = "Python"
                THEN _extract_python_symbols(lines)
                ELSE <<>>
        total_lines == IF lines # <<>> THEN Len(lines) ELSE 1
    IN  _fill_symbol_line_ends(syms, total_lines)

\* A file of each language family, and one of a language without extraction.
SymbolsInit ==
    /\ src_language \in {"TypeScript", "Python", "Go"}
    /\ src_lines \in IF src_language = "Python"
                     THEN SeqsUpTo(PyLines, MaxSrcLines)
                     ELSE SeqsUpTo(TsLines, MaxSrcLines)
    /\ symbols = <<>>
    /\ extracted = FALSE
    /\ ChunkIdle
    /\ SelectIdle
    /\ PipelineIdle
    /\ PromptIdle

ExtractSymbolTable ==
    /\ ~extracted
    /\ symbols' = extract_symbol_table(src_lines, src_language)
    /\ extracted' = TRUE
    /\ UNCHANGED <<src_language, src_lines, chunkVars, selectVars, pipelineVars, promptVars>>

SpecSymbols == SymbolsInit /\ [][ExtractSymbolTable]_vars

\* ------------------------------------------- pipeline: report.py, summarizer.py
\* The uploaded repository: entries as in TreeCatalogue, each file with the text
\* read_text returns for it (line contents and line breaks).  What a file holds
\* when it is read is the file system's: stat's size does not bind it.
RepoEntries ==
    { [dirs |-> <<>>, name |-> "main.py", is_file |-> TRUE, size |-> 1000, content |-> c] :
          c \in { <<>>,
                  <<"def f():">>,
                  <<"class A:", "\n", "    def m(self):", "\n">> } }
    \cup
    { [dirs |-> <<"src">>, name |-> "util.ts", is_file |-> TRUE, size |-> 2000, content |-> c] :
          c \in { <<>>,
                  <<"function f() {}", "\n">>,
                  <<"class A {", "\n", "  m1() {}">> } }
    \cup
    { [dirs |-> <<>>, name |-> "logo.PNG", is_file |-> TRUE, size |-> 1000, content |-> <<>>] }

RepoTrees ==
    {t \in SeqsUpTo(RepoEntries, MaxRepoFiles) :
        \A i, j \in 1..Len(t) : i # j => PathParts(t[i]) # PathParts(t[j])}

\* read_text(path)
read_text(t, path) == (CHOOSE e \in Range(t) : PathParts(e) = path).content

\* The lines of a file as the extractor's patterns see them (each line of the
\* repository's texts is empty or one line content).
LineStrings(lines) ==
    [i \in 1..Len(lines) |-> IF lines[i] = <<>> THEN "" ELSE lines[i][1]]

\* What the language-model service may answer to a summarization request, and
\* response.output_text.strip() of it.
SummaryTexts == {"summary", " "}

\* str.strip(): leading and trailing whitespace removed.
Whitespace == {" ", "\n", "\t", "\r"}
RECURSIVE Strip(_)
Strip(s) ==
    IF s = "" THEN s
    ELSE IF SubSeq(s, 1, 1) \in Whitespace THEN Strip(SubSeq(s, 2, Len(s)))
    ELSE IF SubSeq(s, Len(s), Len(s)) \in Whitespace THEN Strip(SubSeq(s, 1, Len(s) - 1))
    ELSE s

\* _combine_chunk_summaries: one summary verbatim, several as a bulleted list.
_combine_chunk_summaries(chunk_sums) ==
    IF Len(chunk_sums) = 1
    THEN [kind |-> "verbatim", items |-> <<chunk_sums[1]>>]
    ELSE [kind |-> "key_points", items |-> [i \in 1..Len(chunk_sums) |-> Strip(chunk_sums[i])]]

FileSummary(candidate, combined, syms) ==
    [path |-> candidate.path, relative_path |-> candidate.relative_path,
     language |-> candidate.language, summary |-> combined, symbols |-> syms]

\* A test that drops the files that have summaries and keeps the others.
SkipsFileInverted(chunk_sums) == chunk_sums # <<>>

\* if not chunk_summaries: continue
SkipsFile(chunk_sums) == chunk_sums = <<>>

\* ------------------------------------ prompt composer: report.py, codebase.py
\* "sep".join(parts)
RECURSIVE Join(_, _)
Join(parts, sep) ==
    IF parts = <<>> THEN ""
    ELSE IF Len(parts) = 1 THEN parts[1]
    ELSE parts[1] \o sep \o Join(Tail(parts), sep)

\* str(relative_path) of a path, str of a dotted symbol name
PosixPath(parts) == Join(parts, "/")
DottedName(parts) == Join(parts, ".")

\* The combined summary as the string _combine_chunk_summaries returns.
SummaryText(combined) ==
    IF combined.kind = "verbatim" THEN combined.items[1]
    ELSE "Key points:\n"
         \o Join([i \in 1..Len(combined.items) |-> "- " \o combined.items[i]], "\n")

MAX_TREE_DEPTH == 3

\* Every directory above an entry of the tree: root.rglob("*") yields them too.
ParentDirectories(t) ==
    UNION {{SubSeq(t[i].dirs, 1, k) : k \in 1..Len(t[i].dirs)} : i \in 1..Len(t)}

\* Position of a path in the string order of as_posix() among the paths of the
\* repository.
PosixRank(relative_parts) ==
    CASE relative_parts = <<"logo.PNG">>       -> 1
      [] relative_parts = <<"main.py">>        -> 2
      [] relative_parts = <<"src">>            -> 3
      [] relative_parts = <<"src", "util.ts">> -> 4

\* sorted(..., key=lambda p: (len(p.relative_to(root).parts), p.as_posix()))
OverviewBefore(a, b) ==
    \/ Len(a.relative) < Len(b.relative)
    \/ /\ Len(a.relative) = Len(b.relative)
       /\ PosixRank(a.relative) < PosixRank(b.relative)

RECURSIVE SortedPaths(_)
SortedPaths(paths) ==
    IF paths = {} THEN <<>>
    ELSE LET first == CHOOSE a \in paths : \A b \in paths \ {a} : OverviewBefore(a, b)
         IN  <<first>> \o SortedPaths(paths \ {first})

\* "  " * (depth - 1)
RECURSIVE Indent(_)
Indent(n) == IF n <= 0 THEN "" ELSE "  " \o Indent(n - 1)

\* The line of one path, or none.  The branch mark of the display (a box-drawing
\* tee, a dash and a space: three characters) is written "|- ".
OverviewLines(path) ==
    LET depth == Len(path.relative)
        name == path.relative[depth]
        display == Indent(depth - 1) \o "|- " \o name
    IN  IF depth > MAX_TREE_DEPTH THEN <<>>
        ELSE IF path.is_dir THEN <<display \o "/">>
        ELSE IF SuffixLower(name) \in SKIP_EXTENSIONS THEN <<>>
        ELSE <<display>>

RECURSIVE OverviewLoop(_, _)
OverviewLoop(all_paths, i) ==
    IF i > Len(all_paths) THEN <<>>
    ELSE OverviewLines(all_paths[i]) \o OverviewLoop(all_paths, i + 1)

build_directory_overview(t) ==
    LET all_paths ==
            SortedPaths({[relative |-> RelativeParts(t[i]), is_dir |-> ~t[i].is_file] :
                             i \in 1..Len(t)}
                        \cup {[relative |-> d, is_dir |-> TRUE] : d \in ParentDirectories(t)})
    IN  Join(OverviewLoop(all_paths, 1), "\n")

AnalysisArtifacts(overview, cands, sums) ==
    [directory_overview |-> overview, candidates |-> cands, summaries |-> sums]

\* f"- {symbol.name} ({symbol.kind}) lines {line_display}"
SymbolLine(symbol) ==
    LET line_display ==
            IF symbol.line_start = symbol.line_end THEN ToString(symbol.line_start)
            ELSE ToString(symbol.line_start) \o "-" \o ToString(symbol.line_end)
    IN  "- " \o DottedName(symbol.name) \o " (" \o symbol.kind \o ") lines " \o line_display

\* The lines one FileSummary adds to the prompt.
SummarySection(summary) ==
    << "### " \o PosixPath(summary.relative_path),
       "Language: " \o summary.language,
       SummaryText(summary.summary),
       "" >>
    \o IF summary.symbols # <<>>
       THEN <<"Symbols with line ranges:">>
            \o [i \in 1..Len(summary.symbols) |-> SymbolLine(summary.symbols[i])]
            \o <<"">>
       ELSE <<>>

RECURSIVE SummarySections(_)
SummarySections(sums) ==
    IF sums = <<>> THEN <<>>
    ELSE SummarySection(Head(sums)) \o SummarySections(Tail(sums))

OutputFormat ==
    << "## Output Format",
       "Return a JSON object with:",
       "- feature_analysis: array of objects with feature_description (string, Simplified Chinese) and implementation_location (array with file, function, lines).",
       "- execution_plan_suggestion: string with concise instructions to run the project in Simplified Chinese.",
       "Use the symbol table above to cite precise function or method names and provide line numbers or ranges.",
       "Do not leave function or lines as null; if only a single line is known, use that number.",
       "Only output JSON without additional commentary." >>

\* lines of _compose_prompt before the join
PromptLines(description, arts) ==
    << "# Task",
       "Analyze the repository and map implementation details to the requested features.",
       "",
       "## Requirements",
       Strip(description),
       "",
       "## Repository Overview",
       IF arts.directory_overview # "" THEN arts.directory_overview
       ELSE "(overview truncated)",
       "",
       "## File Summaries" >>
    \o (IF arts.summaries = <<>>
        THEN <<"No summaries available; rely on repository overview and prior knowledge.">>
        ELSE SummarySections(arts.summaries))
    \o OutputFormat

\* prompt = "\n".join(lines)
AssembledPrompt(description, arts) == Join(PromptLines(description, arts), "\n")

TruncationMarker == "\n...[context truncated due to length]..."

\* if len(prompt) > max_chars: prompt = prompt[: max(0, max_chars - 100)] + marker
Truncate100(assembled, limit) ==
    IF Len(assembled) > limit
    THEN SubSeq(assembled, 1, Max(0, limit - 100)) \o TruncationMarker
    ELSE assembled

_compose_prompt(description, arts, limit) ==
    Truncate100(AssembledPrompt(description, arts), limit)

\* Requirements texts, overviews and file summaries given to the composer.
Descriptions == {"", "List the features", "  List the features \n"}
Overviews == {"", "|- main.py\n|- src/\n  |- util.ts"}
SummaryCatalogue ==
    { FileSummary(FileCandidate([dirs |-> <<>>, name |-> "main.py", is_file |-> TRUE,
                                 size |-> 1000]),
                  _combine_chunk_summaries(<<"summary">>), <<>>),
      FileSummary(FileCandidate([dirs |-> <<"src">>, name |-> "util.ts", is_file |-> TRUE,
                                 size |-> 2000]),
                  _combine_chunk_summaries(<<"summary", "">>),
                  << SymbolInfo(<<"f">>, "function", 1, 2),
                     SymbolInfo(<<"A", "m1">>, "method", 3, 3) >>) }

PromptInit ==
    /\ problem_description \in Descriptions
    /\ max_prompt_tokens = 0
    /\ artifacts \in {AnalysisArtifacts(o, <<>>, s) :
                         o \in Overviews, s \in SeqsUpTo(SummaryCatalogue, MaxSummaries)}
    /\ max_chars \in 0..MaxChars
    /\ prompt = ""
    /\ composed = FALSE
    /\ ChunkIdle
    /\ SelectIdle
    /\ SymbolsIdle
    /\ PipelineIdle

ComposePrompt ==
    /\ ~composed
    /\ prompt' = _compose_prompt(problem_description, artifacts, max_chars)
    /\ composed' = TRUE
    /\ UNCHANGED <<problem_description, max_prompt_tokens, artifacts, max_chars,
                   chunkVars, selectVars, symbolVars, pipelineVars>>

SpecPrompt == PromptInit /\ [][ComposePrompt]_vars

\* What the service may return as response.output_text of the report call.
ReportTexts ==
    { "not json", "", "Here is the report: {}",
      "{\"feature_analysis\": [], \"execution_plan_suggestion\": \"run\"}",
      "{\"feature_analysis\": [], \"execution_plan_suggestion\": \"run\", \"notes\": 1}",
      "{\"feature_analysis\": []}",
      "{\"execution_plan_suggestion\": \"run\"}",
      "{}",
      "[\"feature_analysis\", \"execution_plan_suggestion\"]",
      "[]",
      "\"feature_analysis execution_plan_suggestion\"",
      "\"ok\"",
      "5", "true", "null" }

JsonValue(type, members, str) == [type |-> type, members |-> members, str |-> str]
NoJson == JsonValue("none", {}, "")

\* json.loads(text): the parsed value (a dict by its keys, a list by its items, a
\* string by its text), or JSONDecodeError.
json_loads(t) ==
    LET value(v) == [ok |-> TRUE, value |-> v]
        error == [ok |-> FALSE, value |-> NoJson]
    IN  CASE t = "not json" -> error
          [] t = "" -> error
          [] t = "Here is the report: {}" -> error
          [] t = "{\"feature_analysis\": [], \"execution_plan_suggestion\": \"run\"}" ->
                 value(JsonValue("dict", {"feature_analysis", "execution_plan_suggestion"}, ""))
          [] t = "{\"feature_analysis\": [], \"execution_plan_suggestion\": \"run\", \"notes\": 1}" ->
                 value(JsonValue("dict", {"feature_analysis", "execution_plan_suggestion", "notes"}, ""))
          [] t = "{\"feature_analysis\": []}" -> value(JsonValue("dict", {"feature_analysis"}, ""))
          [] t = "{\"execution_plan_suggestion\": \"run\"}" ->
                 value(JsonValue("dict", {"execution_plan_suggestion"}, ""))
          [] t = "{}" -> value(JsonValue("dict", {}, ""))
          [] t = "[\"feature_analysis\", \"execution_plan_suggestion\"]" ->
                 value(JsonValue("list", {"feature_analysis", "execution_plan_suggestion"}, ""))
          [] t = "[]" -> value(JsonValue("list", {}, ""))
          [] t = "\"feature_analysis execution_plan_suggestion\"" ->
                 value(JsonValue("str", {}, "feature_analysis execution_plan_suggestion"))
          [] t = "\"ok\"" -> value(JsonValue("str", {}, "ok"))
          [] t = "5" -> value(JsonValue("int", {}, ""))
          [] t = "true" -> value(JsonValue("bool", {}, ""))
          [] t = "null" -> value(JsonValue("NoneType", {}, ""))

\* key in data: membership among a dict's keys or a list's items, substring of a
\* string, TypeError for a value that is no container.
Contains(key, data) ==
    CASE data.type \in {"dict", "list"} ->
             IF key \in data.members THEN "True" ELSE "False"
      [] data.type = "str" ->
             IF data.str = "feature_analysis execution_plan_suggestion" THEN "True"
             ELSE "False"
      [] OTHER -> "TypeError"

Returned(v) == [kind |-> "return", error |-> "", value |-> v]
Raised(e) == [kind |-> "raise", error |-> e, value |-> NoJson]
Pending == [kind |-> "pending", error |-> "", value |-> NoJson]

\* _validate_report
_validate_report(t) ==
    LET parsed == json_loads(t)
    IN  IF ~parsed.ok THEN Raised("ReportGenerationError")
        ELSE LET has_fa == Contains("feature_analysis", parsed.value)
             IN  IF has_fa = "TypeError" THEN Raised("TypeError")
                 ELSE IF has_fa = "False" THEN Raised("ReportGenerationError")
                 ELSE LET has_eps == Contains("execution_plan_suggestion", parsed.value)
                      IN  IF has_eps = "TypeError" THEN Raised("TypeError")
                          ELSE IF has_eps = "False" THEN Raised("ReportGenerationError")
                          ELSE Returned(parsed.value)

SummarizeRequest(candidate, chunk, ok) ==
    [kind |-> "summarize", file |-> candidate.relative_path,
     start_line |-> chunk.start_line, end_line |-> chunk.end_line, ok |-> ok]
ReportRequest(ok) ==
    [kind |-> "report", file |-> <<>>, start_line |-> 0, end_line |-> 0, ok |-> ok]

\* settings.max_prompt_tokens: a small budget and the default.
MaxPromptTokensChoices == {225, 10000}

\* One run of analyze_repository on an uploaded repository.
Init ==
    /\ tree \in RepoTrees
    /\ max_candidate_files \in 1..MaxRepoFiles
    /\ max_file_bytes = 5000
    /\ candidates = <<>>
    /\ selected = FALSE
    /\ text = <<>>
    /\ encoding = [n \in 1..MaxSrcLines |-> 1]
    /\ max_tokens_per_chunk = 1
    /\ chunks = <<>>
    /\ chunked = FALSE
    /\ SymbolsIdle
    /\ pc = "gather"
    /\ file_idx = 0
    /\ chunk_idx = 0
    /\ chunk_summaries = <<>>
    /\ summaries = <<>>
    /\ requests = <<>>
    /\ raw_report = ""
    /\ outcome = Pending
    /\ problem_description = "  List the features \n"
    /\ max_prompt_tokens \in MaxPromptTokensChoices
    /\ NotComposed

settingsVars == <<tree, max_candidate_files, max_file_bytes, encoding, max_tokens_per_chunk,
                  problem_description, max_prompt_tokens>>

\* _gather_artifacts: collect_source_candidates, then summarize_candidates starts.
GatherCandidates ==
    /\ pc = "gather"
    /\ candidates' = collect_source_candidates(tree, max_candidate_files, max_file_bytes)
    /\ selected' = TRUE
    /\ file_idx' = 1
    /\ pc' = "files"
    /\ UNCHANGED <<settingsVars, text, chunks, chunked, symbolVars, chunk_idx,
                   chunk_summaries, summaries, requests, raw_report, outcome,
                   composeVars>>

\* for candidate in candidates: read_text, _chunk_text, extract_symbol_table.
BeginFile ==
    /\ pc = "files"
    /\ file_idx <= Len(candidates)
    /\ LET candidate == candidates[file_idx]
           content == read_text(tree, candidate.path)
           file_chunks == _chunk_text(content, encoding, max_tokens_per_chunk)
       IN  /\ text' = content
           /\ chunks' = file_chunks
           /\ chunked' = TRUE
           /\ IF file_chunks = <<>>
              THEN /\ file_idx' = file_idx + 1
                   /\ UNCHANGED <<pc, chunk_idx, chunk_summaries, symbolVars>>
              ELSE /\ src_language' = candidate.language
                   /\ src_lines' = LineStrings(splitlines(content))
                   /\ symbols' = extract_symbol_table(src_lines', candidate.language)
                   /\ extracted' = TRUE
                   /\ chunk_idx' = 1
                   /\ chunk_summaries' = <<>>
                   /\ pc' = "chunks"
                   /\ UNCHANGED file_idx
    /\ UNCHANGED <<settingsVars, candidates, selected, summaries, requests,
                   raw_report, outcome,
                   composeVars>>

\* _summarize_chunk returned: chunk_summaries.append(chunk_summary)
SummarizeChunkOk ==
    /\ pc = "chunks"
    /\ chunk_idx <= Len(chunks)
    /\ \E output_text \in SummaryTexts :
           chunk_summaries' = Append(chunk_summaries, Strip(output_text))
    /\ requests' = Append(requests,
                          SummarizeRequest(candidates[file_idx], chunks[chunk_idx], TRUE))
    /\ chunk_idx' = chunk_idx + 1
    /\ UNCHANGED <<settingsVars, candidates, selected, text, chunks, chunked, symbolVars,
                   pc, file_idx, summaries, raw_report, outcome,
                   composeVars>>

\* _summarize_chunk raised OpenAIError: logged, continue with the next chunk.
SummarizeChunkFail ==
    /\ pc = "chunks"
    /\ chunk_idx <= Len(chunks)
    /\ requests' = Append(requests,
                          SummarizeRequest(candidates[file_idx], chunks[chunk_idx], FALSE))
    /\ chunk_idx' = chunk_idx + 1
    /\ UNCHANGED <<settingsVars, candidates, selected, text, chunks, chunked, symbolVars,
                   pc, file_idx, chunk_summaries, summaries, raw_report, outcome,
                   composeVars>>

\* After the last chunk: skip the file or append its FileSummary.
EndFile ==
    /\ pc = "chunks"
    /\ chunk_idx > Len(chunks)
    /\ summaries' =
           IF SkipsFile(chunk_summaries) THEN summaries
           ELSE Append(summaries,
                       FileSummary(candidates[file_idx],
                                   _combine_chunk_summaries(chunk_summaries), symbols))
    /\ file_idx' = file_idx + 1
    /\ pc' = "files"
    /\ UNCHANGED <<settingsVars, candidates, selected, text, chunks, chunked, symbolVars,
                   chunk_idx, chunk_summaries, requests, raw_report, outcome,
                   composeVars>>

\* A loop exit that does not wait for the last candidate.
SummariesReturnedEarly == pc = "files"

\* The for loop over candidates is exhausted: return summaries.
SummariesReturned == pc = "files" /\ file_idx > Len(candidates)

\* summarize_candidates returned: build_directory_overview, AnalysisArtifacts,
\* _compose_prompt with max_chars = settings.max_prompt_tokens * 4.
ComposeForReport ==
    /\ artifacts' = AnalysisArtifacts(build_directory_overview(tree), candidates, summaries)
    /\ max_chars' = max_prompt_tokens * 4
    /\ prompt' = _compose_prompt(problem_description, artifacts', max_chars')
    /\ composed' = TRUE

\* The prompt is composed and _request_report's call returns the model's output
\* text.
RequestReportOk ==
    /\ SummariesReturned
    /\ ComposeForReport
    /\ \E output_text \in ReportTexts : raw_report' = output_text
    /\ requests' = Append(requests, ReportRequest(TRUE))
    /\ pc' = "validate"
    /\ UNCHANGED <<settingsVars, candidates, selected, chunkVars, symbolVars, file_idx,
                   chunk_idx, chunk_summaries, summaries, outcome>>

\* _request_report's call raised OpenAIError: raise ReportGenerationError.
RequestReportFail ==
    /\ SummariesReturned
    /\ ComposeForReport
    /\ requests' = Append(requests, ReportRequest(FALSE))
    /\ outcome' = Raised("ReportGenerationError")
    /\ pc' = "done"
    /\ UNCHANGED <<settingsVars, candidates, selected, text, chunks, chunked, symbolVars,
                   file_idx, chunk_idx, chunk_summaries, summaries, raw_report>>

\* return _validate_report(raw_report)
ValidateReport ==
    /\ pc = "validate"
    /\ outcome' = _validate_report(raw_report)
    /\ pc' = "done"
    /\ UNCHANGED <<settingsVars, candidates, selected, text, chunks, chunked, symbolVars,
                   file_idx, chunk_idx, chunk_summaries, summaries, requests, raw_report,
                   composeVars>>

Next ==
    \/ GatherCandidates
    \/ BeginFile
    \/ SummarizeChunkOk
    \/ SummarizeChunkFail
    \/ EndFile
    \/ RequestReportOk
    \/ RequestReportFail
    \/ ValidateReport

Spec == Init /\ [][Next]_vars

\* ------------------------------------------------------------------ C1
chunk_total_lines == Len(splitlines(text))

\* C1: for non-empty text the chunk line ranges are ascending, disjoint and
\* contiguous, start at line 1 and end at chunk_total_lines, so every line number lies
\* in exactly one chunk; empty text yields zero chunks.
C1_ChunkCoverage ==
    chunked =>
        /\ text = <<>> => chunks = <<>>
        /\ text # <<>> =>
            /\ chunk_total_lines >= 1
            /\ chunks # <<>>
            /\ chunks[1].start_line = 1
            /\ chunks[Len(chunks)].end_line = chunk_total_lines
            /\ \A i \in 1..Len(chunks) : chunks[i].start_line <= chunks[i].end_line
            /\ \A i \in 1..(Len(chunks) - 1) :
                   chunks[i + 1].start_line = chunks[i].end_line + 1
            /\ \A n \in 1..chunk_total_lines :
                   Cardinality({i \in 1..Len(chunks) :
                       chunks[i].start_line <= n /\ n <= chunks[i].end_line}) = 1
            /\ \A i \in 1..Len(chunks) :
                   [k \in 1..Len(chunks[i].text) |-> chunks[i].text[k].no]
                       = [k \in 1..(chunks[i].end_line - chunks[i].start_line + 1)
                            |-> chunks[i].start_line + k - 1]

\* A text of several lines was split into more than one chunk.
C1_Witness ==
    /\ chunked
    /\ chunk_total_lines >= 3
    /\ Len(chunks) >= 2
    /\ \E i \in 1..Len(chunks) : chunks[i].end_line > chunks[i].start_line

\* ------------------------------------------------------------------ C2
ChunkCost(chunk) ==
    SumSeq([k \in 1..Len(chunk.text) |-> TokenCount(encoding, chunk.text[k])])

\* C2: every chunk's decorated-line token total is within max_tokens_per_chunk,
\* unless the chunk is exactly one line whose own cost exceeds the budget; every
\* oversized line is emitted, alone in its chunk.
C2_ChunkBudget ==
    chunked =>
        /\ \A i \in 1..Len(chunks) :
               \/ ChunkCost(chunks[i]) <= max_tokens_per_chunk
               \/ /\ Len(chunks[i].text) = 1
                  /\ TokenCount(encoding, chunks[i].text[1]) > max_tokens_per_chunk
        /\ \A n \in 1..chunk_total_lines :
               encoding[n] > max_tokens_per_chunk =>
                   \E i \in 1..Len(chunks) :
                       /\ Len(chunks[i].text) = 1
                       /\ chunks[i].text[1].no = n

\* An oversized line sits alone between chunks that fill the budget.
C2_Witness ==
    /\ chunked
    /\ Len(chunks) >= 2
    /\ \E i \in 1..Len(chunks) :
           /\ Len(chunks[i].text) = 1
           /\ ChunkCost(chunks[i]) > max_tokens_per_chunk
    /\ \E i \in 1..Len(chunks) :
           /\ Len(chunks[i].text) >= 2
           /\ ChunkCost(chunks[i]) = max_tokens_per_chunk
\* ------------------------------------------------------------------ C3
SummarizeCandidatesReturned == SummariesReturned \/ pc \in {"validate", "done"}

ChunksOf(candidate) ==
    _chunk_text(read_text(tree, candidate.path), encoding, max_tokens_per_chunk)

RequestsFor(candidate) ==
    {k \in 1..Len(requests) :
        requests[k].kind = "summarize" /\ requests[k].file = candidate.relative_path}

HasSuccess(candidate) == \E k \in RequestsFor(candidate) : requests[k].ok

Survives(candidate) == ChunksOf(candidate) # <<>> /\ HasSuccess(candidate)

\* C3: whatever chunk summarizations fail, summarize_candidates returns without
\* raising, and its result lists, in candidate order, exactly the candidates that
\* have a chunk and a successfully summarized chunk; every chunk of every
\* candidate was requested, whatever failed before it.
C3_SoftFailureFiltering ==
    /\ pc \in {"gather", "files", "chunks"} => outcome = Pending
    /\ SummarizeCandidatesReturned =>
        /\ [i \in 1..Len(summaries) |-> summaries[i].relative_path]
               = [i \in 1..Len(SelectSeq(candidates, Survives)) |->
                      SelectSeq(candidates, Survives)[i].relative_path]
        /\ \A i \in 1..Len(summaries) :
               Len(summaries[i].summary.items) =
                   Cardinality({k \in 1..Len(requests) :
                       /\ requests[k].kind = "summarize"
                       /\ requests[k].file = summaries[i].relative_path
                       /\ requests[k].ok})
        /\ \A c \in 1..Len(candidates) :
               \A n \in 1..Len(ChunksOf(candidates[c])) :
                   \E k \in RequestsFor(candidates[c]) :
                       requests[k].start_line = ChunksOf(candidates[c])[n].start_line

\* Of two candidates the first lost every chunk and is omitted; the second lost
\* one chunk and is kept.
C3_Witness ==
    /\ SummariesReturned
    /\ Len(candidates) = 2
    /\ Len(ChunksOf(candidates[1])) >= 1
    /\ ~HasSuccess(candidates[1])
    /\ Len(summaries) = 1
    /\ summaries[1].relative_path = candidates[2].relative_path
    /\ \E k \in RequestsFor(candidates[2]) : ~requests[k].ok

\* ------------------------------------------------------------------ C4
RequiredKeys == {"feature_analysis", "execution_plan_suggestion"}

\* A parsed value that is a report: a top-level mapping with both required keys.
IsReport(v) == v.type = "dict" /\ RequiredKeys \subseteq v.members

ReportCallFailed == requests # <<>> /\ requests[Len(requests)] = ReportRequest(FALSE)
ReportCallReturned == requests # <<>> /\ requests[Len(requests)] = ReportRequest(TRUE)

\* C4: a finished run either returned a validated report (a mapping with both
\* required keys) or raised ReportGenerationError, and it raised whenever the
\* report call failed, its output was not JSON, or the parsed JSON lacks a key.
C4_PipelineOutcome ==
    pc = "done" =>
        /\ \/ outcome.kind = "return" /\ IsReport(outcome.value)
           \/ outcome = Raised("ReportGenerationError")
        /\ ( \/ ReportCallFailed
             \/ ~json_loads(raw_report).ok
             \/ ~IsReport(json_loads(raw_report).value) ) =>
               outcome = Raised("ReportGenerationError")

\* ------------------------------------------------------------------ C5
\* C5: _validate_report raises ReportGenerationError when the text is not JSON or
\* the parsed value is not a mapping holding both required keys, and what it
\* returns is the parsed mapping, unchanged, with both keys, for every JSON shape.
C5_ReportValidation ==
    (pc = "done" /\ ReportCallReturned) =>
        LET parsed == json_loads(raw_report)
        IN  /\ (~parsed.ok \/ ~IsReport(parsed.value)) =>
                   outcome = Raised("ReportGenerationError")
            /\ outcome.kind = "return" =>
                   /\ outcome.value = parsed.value
                   /\ outcome.value.type = "dict"
                   /\ RequiredKeys \subseteq outcome.value.members

\* ------------------------------------------------------------------ C6
\* What the selector requires of a tree entry, stated on the entry itself.
Qualifies(e) ==
    /\ e.is_file
    /\ e.size > 0
    /\ e.size <= max_file_bytes
    /\ SuffixLower(e.name) \in DOMAIN SOURCE_EXTENSIONS
    /\ SuffixLower(e.name) \notin SKIP_EXTENSIONS
    /\ \A k \in 1..Len(e.dirs) : e.dirs[k] \notin SKIP_DIR_NAMES

\* C6: the result holds at most max_candidate_files entries, each a regular file
\* of the tree with 0 < size <= max_file_bytes, a recognized extension outside the
\* noise set, and no noise-named directory above it; with no such file the result
\* is the empty list.
C6_SelectionBounds ==
    selected =>
        /\ Len(candidates) <= max_candidate_files
        /\ \A i \in 1..Len(candidates) :
               \E e \in Range(tree) :
                   /\ PathParts(e) = candidates[i].path
                   /\ Qualifies(e)
                   /\ candidates[i].size_bytes = e.size
                   /\ candidates[i].language = SOURCE_EXTENSIONS[SuffixLower(e.name)]
        /\ (\A e \in Range(tree) : ~Qualifies(e)) => candidates = <<>>

\* The cap cut a qualifying file while an oversized file was filtered out.
C6_Witness ==
    /\ selected
    /\ candidates # <<>>
    /\ Len(candidates) = max_candidate_files
    /\ Cardinality({e \in Range(tree) : Qualifies(e)}) > max_candidate_files
    /\ \E e \in Range(tree) : e.is_file /\ e.size > max_file_bytes

\* ------------------------------------------------------------------ C7
\* Discovery position of a path in the traversal.
DiscoveryIndex(path) == CHOOSE i \in 1..Len(tree) : PathParts(tree[i]) = path

WeightOfEntry(e) == compute_weight(RelativeParts(e), e.size, LanguageOf(e))

\* C7: the result is non-increasing by weight with equal weights in discovery
\* order, holds min(max_candidate_files, number of qualifying files) entries, and
\* every qualifying file left out comes after every returned one in that order
\* (lighter, or as heavy and discovered later).
C7_SelectionOrder ==
    selected =>
        /\ \A i, j \in 1..Len(candidates) :
               i < j =>
                   /\ ~WeightGreater(candidates[j].weight, candidates[i].weight)
                   /\ WeightEqual(candidates[i].weight, candidates[j].weight) =>
                          DiscoveryIndex(candidates[i].path) < DiscoveryIndex(candidates[j].path)
        /\ Len(candidates) =
               Min(max_candidate_files, Cardinality({e \in Range(tree) : Qualifies(e)}))
        /\ \A e \in Range(tree) :
               (Qualifies(e) /\ \A i \in 1..Len(candidates) : candidates[i].path # PathParts(e)) =>
                   \A i \in 1..Len(candidates) :
                       /\ ~WeightGreater(WeightOfEntry(e), candidates[i].weight)
                       /\ WeightEqual(WeightOfEntry(e), candidates[i].weight) =>
                              DiscoveryIndex(candidates[i].path) < DiscoveryIndex(PathParts(e))

\* A heavier file discovered last was moved first, two files tie, and the cap cut
\* a qualifying file.
C7_Witness ==
    /\ selected
    /\ Len(candidates) >= 2
    /\ Cardinality({e \in Range(tree) : Qualifies(e)}) > max_candidate_files
    /\ \E i \in 1..Len(candidates) :
           DiscoveryIndex(candidates[i].path) > i
    /\ \E e \in Range(tree) :
           /\ Qualifies(e)
           /\ \A i \in 1..Len(candidates) : candidates[i].path # PathParts(e)
           /\ \E i \in 1..Len(candidates) : WeightEqual(WeightOfEntry(e), candidates[i].weight)
\* ------------------------------------------------------------------ C8
SymbolSet == {<<symbols[i].name, symbols[i].kind>> : i \in 1..Len(symbols)}

\* C8: a class A whose body holds the methods m1 and m2 yields exactly the
\* symbols A (class), A.m1 and A.m2 (method); a function declaration with no
\* class declared before it yields a function symbol with its unqualified name.
C8_BraceScopedExample ==
    (extracted /\ src_language = "TypeScript") =>
        /\ src_lines = <<"class A {", "  m1() {}", "  m2() {}", "}">> =>
               SymbolSet = { <<(<<"A">>), "class">>,
                             <<(<<"A", "m1">>), "method">>,
                             <<(<<"A", "m2">>), "method">> }
        /\ \A i \in 1..Len(src_lines) :
               ( /\ src_lines[i] = "function f() {}"
                 /\ \A k \in 1..(i - 1) : TsFeatures(src_lines[k]).class = None ) =>
                   \E j \in 1..Len(symbols) :
                       /\ symbols[j].line_start = i
                       /\ symbols[j].name = <<"f">>
                       /\ symbols[j].kind = "function"

\* ------------------------------------------------------------------ C9
PyIndent(k) == PyFeatures(src_lines[k]).indent
PyBlank(k) == src_lines[k] = ""

\* Line j lies in the body of the class declared on line c.
InClassBody(c, j) ==
    /\ c < j
    /\ PyFeatures(src_lines[c]).class # None
    /\ PyIndent(j) > PyIndent(c)
    /\ \A k \in (c + 1)..(j - 1) : PyBlank(k) \/ PyIndent(k) > PyIndent(c)

EnclosingClasses(j) == {c \in 1..Len(src_lines) : InClassBody(c, j)}

InnermostClass(j) == CHOOSE c \in EnclosingClasses(j) : \A d \in EnclosingClasses(j) : d <= c

\* C9: a def line inside a class body (every line between the class line and the
\* def is blank or deeper than the class line) is recorded as Class.method for the
\* innermost such class; a def line inside no class body is recorded unqualified.
C9_IndentationScoped ==
    (extracted /\ src_language = "Python") =>
        \A j \in 1..Len(src_lines) :
            PyFeatures(src_lines[j]).def # None =>
                \E s \in 1..Len(symbols) :
                    /\ symbols[s].line_start = j
                    /\ symbols[s].kind = "function"
                    /\ symbols[s].name =
                           IF EnclosingClasses(j) # {}
                           THEN <<PyFeatures(src_lines[InnermostClass(j)]).class,
                                  PyFeatures(src_lines[j]).def>>
                           ELSE <<PyFeatures(src_lines[j]).def>>

\* ------------------------------------------------------------------ C10
ExampleSymbols ==
    <<SymbolInfo(<<"a">>, "function", 1, 1),
      SymbolInfo(<<"b">>, "function", 10, 10),
      SymbolInfo(<<"c">>, "function", 25, 25)>>

\* C10: after extract_symbol_table the symbols are ordered by start line, each
\* non-final one ends at max(its start, the next start - 1), the final one ends at
\* the last line of the file, and so line_start <= line_end <= total lines; starts
\* 1, 10, 25 in a 30-line file give ends 9, 24, 30.
C10_LineEnds ==
    /\ [i \in 1..3 |-> _fill_symbol_line_ends(ExampleSymbols, 30)[i].line_end]
           = <<9, 24, 30>>
    /\ extracted =>
        /\ \A i \in 1..(Len(symbols) - 1) :
               /\ symbols[i].line_start <= symbols[i + 1].line_start
               /\ symbols[i].line_end =
                      Max(symbols[i].line_start, symbols[i + 1].line_start - 1)
        /\ symbols # <<>> => symbols[Len(symbols)].line_end = Len(src_lines)
        /\ \A i \in 1..Len(symbols) :
               /\ 1 <= symbols[i].line_start
               /\ symbols[i].line_start <= symbols[i].line_end
               /\ symbols[i].line_end <= Len(src_lines)

\* Two symbols start on one line, a third follows, and the file goes on after it.
C10_Witness ==
    /\ extracted
    /\ Len(symbols) >= 3
    /\ \E i \in 1..(Len(symbols) - 1) : symbols[i].line_start = symbols[i + 1].line_start
    /\ \E i \in 1..(Len(symbols) - 1) : symbols[i].line_end > symbols[i].line_start
    /\ symbols[Len(symbols)].line_start < Len(src_lines)

\* ------------------------------------------------------------------ C11
\* C11: for every requirements text, artifacts and max_chars >= 0 the prompt
\* _compose_prompt returns has at most max_chars characters; when the assembled
\* text exceeds max_chars it is the first max_chars - 100 characters of the
\* assembled text (none when that count is not positive) followed by the
\* truncation marker, and otherwise it is the assembled text unchanged.
C11_BoundedPrompt ==
    composed =>
        LET assembled == AssembledPrompt(problem_description, artifacts)
        IN  /\ max_chars >= 0
            /\ Len(prompt) <= max_chars
            /\ IF Len(assembled) > max_chars
               THEN prompt = SubSeq(assembled, 1, max_chars - 100) \o TruncationMarker
               ELSE prompt = assembled

\* ------------------------------------------------------------------ C12
\* First position of sub in s at or after position i, 0 when there is none.
RECURSIVE IndexFrom(_, _, _)
IndexFrom(s, sub, i) ==
    IF i + Len(sub) - 1 > Len(s) THEN 0
    ELSE IF SubSeq(s, i, i + Len(sub) - 1) = sub THEN i
    ELSE IndexFrom(s, sub, i + 1)

OutputFormatBlock == Join(OutputFormat, "\n")

\* C12: every prompt _compose_prompt returns, for any artifacts and any
\* max_chars, ends with the output-format instructions, and the requirements,
\* the overview and the file summaries sections stand before them in this order.
C12_EndsWithOutputFormat ==
    composed =>
        LET n == Len(prompt)
            k == Len(OutputFormatBlock)
            body == SubSeq(prompt, 1, n - k)
            requirements_at == IndexFrom(body, "## Requirements\n", 1)
            overview_at == IndexFrom(body, "\n## Repository Overview\n", requirements_at + 1)
            summaries_at == IndexFrom(body, "\n## File Summaries\n", overview_at + 1)
        IN  /\ n >= k
            /\ SubSeq(prompt, n - k + 1, n) = OutputFormatBlock
            /\ requirements_at > 0
            /\ overview_at > 0
            /\ summaries_at > 0

\* ------------------------------------------------------------------ C13
IsSummarize(r) == r.kind = "summarize"

Call(file, start_line, end_line) ==
    [file |-> file, start_line |-> start_line, end_line |-> end_line]

\* The summarization requests issued so far, in the order of issue.
SummarizationCalls ==
    LET issued == SelectSeq(requests, IsSummarize)
    IN  [k \in 1..Len(issued) |->
            Call(issued[k].file, issued[k].start_line, issued[k].end_line)]

\* Every chunk of every candidate from the i-th on: candidates in the order of
\* the selection, the chunks of one candidate in the order of the chunker.
RECURSIVE ExpectedCalls(_)
ExpectedCalls(i) ==
    IF i > Len(candidates) THEN <<>>
    ELSE LET file_chunks == ChunksOf(candidates[i])
         IN  [n \in 1..Len(file_chunks) |->
                 Call(candidates[i].relative_path, file_chunks[n].start_line,
                      file_chunks[n].end_line)]
             \o ExpectedCalls(i + 1)

ReportCalls == {k \in 1..Len(requests) : requests[k].kind = "report"}

IsPrefix(a, b) == Len(a) <= Len(b) /\ a = SubSeq(b, 1, Len(a))

\* C13: in one run of analyze_repository the summarization requests follow the
\* candidate order and, within a file, the ascending chunk order; no chunk is
\* requested twice, whether its call succeeded or failed; the report call is
\* issued at most once, after every chunk of every candidate was requested, and
\* nothing is requested after it; validation happens only after the report call
\* returned.
C13_CallOrdering ==
    /\ IsPrefix(SummarizationCalls, ExpectedCalls(1))
    /\ \A j, k \in 1..Len(requests) :
           /\ j < k
           /\ IsSummarize(requests[j])
           /\ IsSummarize(requests[k])
           /\ requests[j].file = requests[k].file
           => requests[j].start_line < requests[k].start_line
    /\ Cardinality(ReportCalls) <= 1
    /\ \A k \in ReportCalls :
           /\ k = Len(requests)
           /\ SummarizationCalls = ExpectedCalls(1)
    /\ pc = "validate" => \E k \in ReportCalls : requests[k].ok
    /\ pc = "done" => ReportCalls # {}
    /\ outcome # Pending =>
           \E k \in ReportCalls :
               outcome = IF requests[k].ok THEN _validate_report(raw_report)
                         ELSE Raised("ReportGenerationError")

\* A finished run over two files of two chunks each, with a failed and a
\* successful summarization, a report call and a validated report.
C13_Witness ==
    /\ pc = "done"
    /\ outcome.kind = "return"
    /\ Len(candidates) = 2
    /\ Len(SummarizationCalls) = 4
    /\ \E j, k \in 1..Len(requests) :
           /\ IsSummarize(requests[j]) /\ ~requests[j].ok
           /\ IsSummarize(requests[k]) /\ requests[k].ok
           /\ j < k
           /\ requests[j].file = requests[k].file
    /\ requests[Len(requests)] = ReportRequest(TRUE)

\* ------------------------------------------------------------------ C14
\* Brace depth after line k of the file: braces opened less braces closed.
RECURSIVE TsDepthAfter(_)
TsDepthAfter(k) ==
    IF k = 0 THEN 0
    ELSE TsDepthAfter(k - 1) + TsFeatures(src_lines[k]).open - TsFeatures(src_lines[k]).close

TsClassLines == {c \in 1..Len(src_lines) : TsFeatures(src_lines[c]).class # None}

\* The line holding the opening brace of the class declared on line c: line c
\* itself, or the brace-only line that follows it; 0 when there is neither.
OpeningBraceLine(c) ==
    IF TsFeatures(src_lines[c]).open > 0 THEN c
    ELSE IF c + 1 <= Len(src_lines) /\ src_lines[c + 1] = "{" THEN c + 1
    ELSE 0

\* Line j lies between the opening brace of the class of line c and the brace
\* that closes it.
InTsClassBody(c, j) ==
    LET o == OpeningBraceLine(c)
    IN  /\ o > 0
        /\ o < j
        /\ \A k \in o..(j - 1) : TsDepthAfter(k) >= TsDepthAfter(o)

TsEnclosingClasses(j) == {c \in TsClassLines : InTsClassBody(c, j)}

\* The names a method pattern finds on a line.
MethodNamesOn(j) ==
    {TsFeatures(src_lines[j]).method, TsFeatures(src_lines[j]).arrow} \ {None}

RecordedAsMethodOf(j, class_name, name) ==
    \E i \in 1..Len(symbols) :
        /\ symbols[i].kind = "method"
        /\ symbols[i].line_start = j
        /\ symbols[i].name = <<class_name, name>>

\* C14: in a file of class, method, function and brace-only lines a
\* method-pattern line is recorded as a method qualified by class C exactly when
\* it lies between C's opening brace (on the class line or on the next line) and
\* the matching closing brace and C is the innermost such class; a method-pattern
\* line inside no class body yields no method symbol.
C14_ClassScopeLifetime ==
    extracted /\ src_language = "TypeScript" =>
        \A j \in 1..Len(src_lines) :
            \A name \in MethodNamesOn(j) :
                \A class_name \in {"A", "B"} :
                    RecordedAsMethodOf(j, class_name, name)
                    <=> /\ TsEnclosingClasses(j) # {}
                        /\ LET c == CHOOSE x \in TsEnclosingClasses(j) :
                                        \A y \in TsEnclosingClasses(j) : y <= x
                           IN  TsFeatures(src_lines[c]).class = class_name
====
